---------------------------- MODULE Spec2Model ----------------------------
(***************************************************************************)
(* The native code-generation backend of the zen compiler                  *)
(* (src/src/native_codegen.c, driven by src/compiler/src/main.c):          *)
(* AST -> instruction IR -> x86-64 bytes -> ELF file.                      *)
(*                                                                         *)
(* The context (NativeCodeGen) is the record cg; the operations on it are  *)
(* operators that take a context and return the context they leave behind  *)
(* (with the C function's boolean result where it has one).  The actions   *)
(* apply them the way main.c or a client of native_codegen.h calls them.   *)
(***************************************************************************)
EXTENDS Integers, Sequences, FiniteSets, TLC

(***************************************************************************)
(* Bounds of the model.                                                    *)
(***************************************************************************)
\* API calls a client makes on one context (driver "api").
MaxCalls == 3
\* Numeric literals of the generated expression family are 1..MaxLit.
MaxLit == 2
\* Instructions a client emits before it runs the encoder (driver "enc").
MaxInsts == 2
\* The instructions a client has emitted before it runs the encoder, and
\* the encoder runs it makes on them (driver "cap").
CapInsts == 420
MaxRuns == 4
\* The allocation of an instruction that fails is one of the first
\* MaxMallocs of the compilation (driver "oom").
MaxMallocs == 12

(***************************************************************************)
(* Program constants.                                                      *)
(***************************************************************************)
INITIAL_CODE_CAPACITY == 4096
BASE_ADDRESS == 4194304
SizeofELF64_Header == 64
SizeofELF64_ProgramHeader == 56
REG_RAX == 0
REG_RBX == 3
REG_RSP == 4
REG_RBP == 5
REG_RDI == 7
REG_R8 == 8
\* The placeholder "address" of every string literal, 0x600000.
STRING_PLACEHOLDER == 6291456
\* The exit system call's number.
SYS_exit == 60

NoLabel == ""
NullStr == "NULL"
NullNode == [type |-> "NULL"]

(***************************************************************************)
(* The AST the frontend hands over (ast.h), built as ast.c builds it.      *)
(* A number literal holds a whole number: the cast (int64_t)number_value   *)
(* of native_codegen_literal is then the value itself.                     *)
(***************************************************************************)
ast_create_literal_number(v) ==
    [type |-> "AST_LITERAL_EXPR", literal_type |-> "LITERAL_NUMBER", value |-> v]
ast_create_literal_string(s) ==
    [type |-> "AST_LITERAL_EXPR", literal_type |-> "LITERAL_STRING", value |-> s]
ast_create_literal_boolean(b) ==
    [type |-> "AST_LITERAL_EXPR", literal_type |-> "LITERAL_BOOLEAN", value |-> b]
ast_create_literal_null ==
    [type |-> "AST_LITERAL_EXPR", literal_type |-> "LITERAL_NULL", value |-> 0]
ast_create_identifier(name) ==
    [type |-> "AST_IDENTIFIER_EXPR", name |-> name]
ast_create_binary_expr(op, left, right) ==
    [type |-> "AST_BINARY_EXPR", operator |-> op, left |-> left, right |-> right]
ast_create_unary_expr(op, operand) ==
    [type |-> "AST_UNARY_EXPR", operator |-> op, operand |-> operand]
ast_create_call_expr(callee, args) ==
    [type |-> "AST_CALL_EXPR", callee |-> callee, arguments |-> args,
     argument_count |-> Len(args)]
ast_create_var_declaration(name, var_type, is_const, init) ==
    [type |-> "AST_VAR_DECLARATION", name |-> name, var_type |-> var_type,
     is_const |-> is_const, initializer |-> init]
ast_create_function_declaration(name, body) ==
    [type |-> "AST_FUNCTION_DECLARATION", name |-> name, body |-> body]
ast_create_return_stmt(value) ==
    [type |-> "AST_RETURN_STMT", value |-> value]
ast_create_block_stmt(statements) ==
    [type |-> "AST_BLOCK_STMT", statements |-> statements,
     statement_count |-> Len(statements)]
ast_create_expression_stmt(e) ==
    [type |-> "AST_EXPRESSION_STMT", expression |-> e]
ast_create_if_stmt(cond, then_branch) ==
    [type |-> "AST_IF_STMT", condition |-> cond, then_branch |-> then_branch,
     else_branch |-> NullNode]
ast_create_program(declarations) ==
    [type |-> "AST_PROGRAM", declarations |-> declarations,
     declaration_count |-> Len(declarations)]

(***************************************************************************)
(* The context.  stdout and stderr are the compiler process's two output   *)
(* streams, which native_codegen_error and emit_syscall_write print to;    *)
(* they are carried with the context so that one record is threaded        *)
(* through the operations.  code_buffer holds the code_size bytes written  *)
(* so far: code_size is Len(code_buffer).  error_at records how many        *)
(* instructions the sequence held when the last error was reported.        *)
(* mallocs_left tells the host's allocator: the allocation of an           *)
(* instruction that finds it at 1 fails; 0 means none fails.               *)
(***************************************************************************)
native_codegen_create ==
    [instructions |-> << >>,
     string_literals |-> << >>,
     functions |-> << >>,
     variables |-> << >>,
     current_function |-> NullStr,
     stack_offset |-> 0,
     label_counter |-> 0,
     code_buffer |-> << >>,
     code_capacity |-> INITIAL_CODE_CAPACITY,
     had_error |-> FALSE,
     error_message |-> NullStr,
     stdout |-> << >>,
     stderr |-> << >>,
     error_at |-> 0,
     mallocs_left |-> 0]

code_size(c) == Len(c.code_buffer)

\* native_codegen_error: sets the flag, replaces the message, prints it.
native_codegen_error(c, message) ==
    [c EXCEPT !.had_error = TRUE,
              !.error_message = message,
              !.stderr = Append(@, message),
              !.error_at = Len(c.instructions)]

\* Results of the bool-returning operations.
Ok(c) == [ok |-> TRUE, c |-> c]
Fail(c) == [ok |-> FALSE, c |-> c]
FailWith(c, message) == Fail(native_codegen_error(c, message))

(***************************************************************************)
(* Operands and instructions.  An operand carries every member of the C    *)
(* union; the members its type does not use are 0 / NoLabel.               *)
(***************************************************************************)
OperandRegister(reg) ==
    [type |-> "OPERAND_REGISTER", reg |-> reg, immediate |-> 0,
     base |-> 0, offset |-> 0, label |-> NoLabel]
OperandImmediate(imm) ==
    [type |-> "OPERAND_IMMEDIATE", reg |-> 0, immediate |-> imm,
     base |-> 0, offset |-> 0, label |-> NoLabel]
OperandMemory(base, offset) ==
    [type |-> "OPERAND_MEMORY", reg |-> 0, immediate |-> 0,
     base |-> base, offset |-> offset, label |-> NoLabel]
OperandLabel(label) ==
    [type |-> "OPERAND_LABEL", reg |-> 0, immediate |-> 0,
     base |-> 0, offset |-> 0, label |-> label]

Instruction(opcode, operands, label) ==
    [opcode |-> opcode, operands |-> operands,
     operand_count |-> Len(operands), label |-> label]

\* What every emit_* function does with the instruction it builds: when
\* malloc fails it reports the error and returns, otherwise it appends the
\* instruction at the tail.
AppendInstruction(c, inst) ==
    IF c.mallocs_left = 1
    THEN native_codegen_error([c EXCEPT !.mallocs_left = 0], "Out of memory")
    ELSE [c EXCEPT !.instructions = Append(@, inst),
                   !.mallocs_left = IF @ > 0 THEN @ - 1 ELSE 0]

\* Mutant: the counter is read and not advanced.
create_label_no_increment(c, prefix) ==
    [label |-> prefix \o "_" \o ToString(c.label_counter), c |-> c]

create_label(c, prefix) ==
    [label |-> prefix \o "_" \o ToString(c.label_counter),
     c |-> [c EXCEPT !.label_counter = @ + 1]]

emit_label(c, label) ==
    AppendInstruction(c, Instruction("INST_NOP", << >>, label))
emit_instruction(c, opcode) ==
    AppendInstruction(c, Instruction(opcode, << >>, NoLabel))
emit_instruction_reg(c, opcode, reg) ==
    AppendInstruction(c, Instruction(opcode, <<OperandRegister(reg)>>, NoLabel))
emit_instruction_reg_reg(c, opcode, dst, src) ==
    AppendInstruction(c,
        Instruction(opcode, <<OperandRegister(dst), OperandRegister(src)>>, NoLabel))
emit_instruction_reg_imm(c, opcode, reg, imm) ==
    AppendInstruction(c,
        Instruction(opcode, <<OperandRegister(reg), OperandImmediate(imm)>>, NoLabel))
emit_instruction_reg_mem(c, opcode, reg, base, offset) ==
    AppendInstruction(c,
        Instruction(opcode, <<OperandRegister(reg), OperandMemory(base, offset)>>, NoLabel))
emit_instruction_mem_reg(c, opcode, base, offset, reg) ==
    AppendInstruction(c,
        Instruction(opcode, <<OperandMemory(base, offset), OperandRegister(reg)>>, NoLabel))
emit_instruction_label(c, opcode, label) ==
    AppendInstruction(c, Instruction(opcode, <<OperandLabel(label)>>, NoLabel))

(***************************************************************************)
(* The symbol tables.  Each is a linked list the code prepends to: the     *)
(* head, element 1 here, is the newest entry.                              *)
(***************************************************************************)
add_string_literal(c, content) ==
    LET l == create_label(c, "str")
        str == [label |-> l.label, content |-> content]
    IN  [str |-> str,
         c |-> [l.c EXCEPT !.string_literals = <<str>> \o @]]

add_function_symbol(c, name) ==
    LET l == create_label(c, "func")
        func == [name |-> name, label |-> l.label, stack_size |-> 0]
    IN  [func |-> func,
         c |-> [l.c EXCEPT !.functions = <<func>> \o @]]

\* Mutant: a slot as wide as the variable's type.
add_variable_symbol_by_width(c, name, type, is_const) ==
    LET var == [name |-> name, type |-> type, is_const |-> is_const,
                stack_offset |-> c.stack_offset]
        width == IF type \in {"TYPE_I32", "TYPE_BOOL"} THEN 4 ELSE 8
    IN  [var |-> var,
         c |-> [c EXCEPT !.stack_offset = @ + width,
                         !.variables = <<var>> \o @]]

\* Mutant: the new symbol goes to the tail of the list.
add_variable_symbol_at_tail(c, name, type, is_const) ==
    LET var == [name |-> name, type |-> type, is_const |-> is_const,
                stack_offset |-> c.stack_offset]
    IN  [var |-> var,
         c |-> [c EXCEPT !.stack_offset = @ + 8,
                         !.variables = Append(@, var)]]

add_variable_symbol(c, name, type, is_const) ==
    LET var == [name |-> name, type |-> type, is_const |-> is_const,
                stack_offset |-> c.stack_offset]
    IN  [var |-> var,
         c |-> [c EXCEPT !.stack_offset = @ + 8,
                         !.variables = <<var>> \o @]]

\* The index in c.variables of the first entry named name, 0 for NULL.
RECURSIVE LookupFrom(_, _, _)
LookupFrom(vars, name, i) ==
    IF i > Len(vars) THEN 0
    ELSE IF vars[i].name = name THEN i
    ELSE LookupFrom(vars, name, i + 1)
lookup_variable(c, name) == LookupFrom(c.variables, name, 1)

\* Mutant: the write system call is emitted into the instruction sequence.
emit_syscall_write_at_run_time(c, string_label) ==
    LET c1 == emit_instruction_reg_imm(c, "INST_MOV", REG_RAX, 1)
        c2 == emit_instruction_reg_imm(c1, "INST_MOV", REG_RDI, 1)
    IN  emit_instruction(c2, "INST_SYSCALL")

\* Finds the literal by its label, then prints its content: no instruction.
emit_syscall_write(c, string_label) ==
    LET found == {i \in 1..Len(c.string_literals) :
                     c.string_literals[i].label = string_label}
    IN  IF found = {}
        THEN native_codegen_error(c, "String literal not found for print")
        ELSE LET i == CHOOSE k \in found : \A j \in found : k <= j
             IN  [c EXCEPT !.stdout = Append(@, c.string_literals[i].content)]

emit_syscall_exit(c, exit_code) ==
    LET c1 == emit_instruction_reg_imm(c, "INST_MOV", REG_RAX, SYS_exit)
        c2 == emit_instruction_reg_imm(c1, "INST_MOV", REG_RDI, exit_code)
    IN  emit_instruction(c2, "INST_SYSCALL")

(***************************************************************************)
(* AST-to-IR lowering.  Each operator returns [ok, c]: the C function's    *)
(* result and the context it leaves.                                       *)
(***************************************************************************)
native_codegen_literal(c, literal, result_reg) ==
    CASE literal.literal_type = "LITERAL_NUMBER" ->
            Ok(emit_instruction_reg_imm(c, "INST_MOV", result_reg, literal.value))
      [] literal.literal_type = "LITERAL_STRING" ->
            LET s == add_string_literal(c, literal.value)
            IN  Ok(emit_instruction_reg_imm(s.c, "INST_MOV", result_reg,
                                            STRING_PLACEHOLDER))
      [] literal.literal_type = "LITERAL_BOOLEAN" ->
            Ok(emit_instruction_reg_imm(c, "INST_MOV", result_reg,
                                        IF literal.value THEN 1 ELSE 0))
      [] literal.literal_type = "LITERAL_NULL" ->
            Ok(emit_instruction_reg_imm(c, "INST_MOV", result_reg, 0))
      [] OTHER -> FailWith(c, "Unknown literal type")

\* Mutant: an unknown name returns false without reporting an error.
native_codegen_identifier_silent(c, ident, result_reg) ==
    LET i == lookup_variable(c, ident.name)
    IN  IF i = 0
        THEN Fail(c)
        ELSE Ok(emit_instruction_reg_mem(c, "INST_MOV", result_reg, REG_RBP,
                                         -(c.variables[i].stack_offset)))

native_codegen_identifier(c, ident, result_reg) ==
    LET i == lookup_variable(c, ident.name)
    IN  IF i = 0
        THEN FailWith(c, "Undefined variable")
        ELSE Ok(emit_instruction_reg_mem(c, "INST_MOV", result_reg, REG_RBP,
                                         -(c.variables[i].stack_offset)))

\* The operator instruction of a binary expression, "" for the default case.
BinaryOpcode(operator) ==
    CASE operator = "BINARY_ADD" -> "INST_ADD"
      [] operator = "BINARY_SUBTRACT" -> "INST_SUB"
      [] operator = "BINARY_MULTIPLY" -> "INST_MUL"
      [] operator = "BINARY_DIVIDE" -> "INST_DIV"
      [] OTHER -> ""

RECURSIVE native_codegen_expression(_, _, _)
RECURSIVE native_codegen_binary_expr(_, _, _)
RECURSIVE native_codegen_unary_expr(_, _, _)
RECURSIVE native_codegen_call_expr(_, _, _)

\* Mutant: the left operand stays in RAX while the right one is lowered.
native_codegen_binary_expr_no_push(c, binary, result_reg) ==
    LET l == native_codegen_expression(c, binary.left, REG_RAX)
    IN  IF ~l.ok THEN l
        ELSE
        LET r == native_codegen_expression(l.c, binary.right, REG_RBX)
            opcode == BinaryOpcode(binary.operator)
        IN  IF ~r.ok THEN r
            ELSE IF opcode = ""
            THEN FailWith(r.c, "Unsupported binary operator")
            ELSE
            LET c3 == emit_instruction_reg_reg(r.c, opcode, REG_RAX, REG_RBX)
            IN  IF result_reg # REG_RAX
                THEN Ok(emit_instruction_reg_reg(c3, "INST_MOV", result_reg, REG_RAX))
                ELSE Ok(c3)

\* Mutant: the left operand is pushed and never popped.
native_codegen_binary_expr_no_pop(c, binary, result_reg) ==
    LET l == native_codegen_expression(c, binary.left, REG_RAX)
    IN  IF ~l.ok THEN l
        ELSE
        LET c1 == emit_instruction_reg(l.c, "INST_PUSH", REG_RAX)
            r == native_codegen_expression(c1, binary.right, REG_RBX)
            opcode == BinaryOpcode(binary.operator)
        IN  IF ~r.ok THEN r
            ELSE IF opcode = ""
            THEN FailWith(r.c, "Unsupported binary operator")
            ELSE
            LET c3 == emit_instruction_reg_reg(r.c, opcode, REG_RAX, REG_RBX)
            IN  IF result_reg # REG_RAX
                THEN Ok(emit_instruction_reg_reg(c3, "INST_MOV", result_reg, REG_RAX))
                ELSE Ok(c3)

native_codegen_binary_expr(c, binary, result_reg) ==
    LET l == native_codegen_expression(c, binary.left, REG_RAX)
    IN  IF ~l.ok THEN l
        ELSE
        LET c1 == emit_instruction_reg(l.c, "INST_PUSH", REG_RAX)
            r == native_codegen_expression(c1, binary.right, REG_RBX)
        IN  IF ~r.ok THEN r
            ELSE
            LET c2 == emit_instruction_reg(r.c, "INST_POP", REG_RAX)
                opcode == BinaryOpcode(binary.operator)
            IN  IF opcode = ""
                THEN FailWith(c2, "Unsupported binary operator")
                ELSE
                LET c3 == emit_instruction_reg_reg(c2, opcode, REG_RAX, REG_RBX)
                IN  IF result_reg # REG_RAX
                    THEN Ok(emit_instruction_reg_reg(c3, "INST_MOV", result_reg, REG_RAX))
                    ELSE Ok(c3)

native_codegen_unary_expr(c, unary, result_reg) ==
    LET o == native_codegen_expression(c, unary.operand, result_reg)
    IN  IF ~o.ok THEN o
        ELSE CASE unary.operator = "UNARY_MINUS" ->
                    Ok(emit_instruction_reg_imm(o.c, "INST_MUL", result_reg, -1))
               [] unary.operator = "UNARY_NOT" ->
                    Ok(emit_instruction_reg_imm(o.c, "INST_CMP", result_reg, 0))
               [] OTHER -> FailWith(o.c, "Unsupported unary operator")

native_codegen_call_expr(c, call, result_reg) ==
    IF call.callee.type # "AST_IDENTIFIER_EXPR"
    THEN FailWith(c, "Only direct function calls supported")
    ELSE IF call.callee.name = "print"
    THEN IF call.argument_count # 1
         THEN FailWith(c, "print requires exactly one argument")
         ELSE
         LET a == native_codegen_expression(c, call.arguments[1], REG_RAX)
             arg == call.arguments[1]
             \* Both branches write the list's head, the newest literal.
             writes == \/ /\ arg.type = "AST_LITERAL_EXPR"
                          /\ arg.literal_type = "LITERAL_STRING"
                       \/ arg.type = "AST_IDENTIFIER_EXPR"
         IN  IF ~a.ok THEN a
             ELSE IF writes /\ a.c.string_literals # << >>
             THEN Ok(emit_syscall_write(a.c, a.c.string_literals[1].label))
             ELSE Ok(a.c)
    ELSE FailWith(c, "Function calls not yet implemented")

native_codegen_expression(c, expr, result_reg) ==
    CASE expr.type = "AST_LITERAL_EXPR" -> native_codegen_literal(c, expr, result_reg)
      [] expr.type = "AST_IDENTIFIER_EXPR" -> native_codegen_identifier(c, expr, result_reg)
      [] expr.type = "AST_BINARY_EXPR" -> native_codegen_binary_expr(c, expr, result_reg)
      [] expr.type = "AST_UNARY_EXPR" -> native_codegen_unary_expr(c, expr, result_reg)
      [] expr.type = "AST_CALL_EXPR" -> native_codegen_call_expr(c, expr, result_reg)
      [] OTHER -> FailWith(c, "Unsupported expression type")

native_codegen_var_declaration(c, var) ==
    LET s == add_variable_symbol(c, var.name, var.var_type, var.is_const)
    IN  IF var.initializer.type = "NULL" THEN Ok(s.c)
        ELSE
        LET e == native_codegen_expression(s.c, var.initializer, REG_RAX)
        IN  IF ~e.ok THEN e
            ELSE Ok(emit_instruction_mem_reg(e.c, "INST_MOV", REG_RBP,
                                             -(s.var.stack_offset), REG_RAX))

\* mov rsp, rbp; pop rbp; ret
FunctionEpilogue(c) ==
    LET c1 == emit_instruction_reg_reg(c, "INST_MOV", REG_RSP, REG_RBP)
        c2 == emit_instruction_reg(c1, "INST_POP", REG_RBP)
    IN  emit_instruction(c2, "INST_RET")

native_codegen_return_stmt(c, ret) ==
    IF ret.value.type # "NULL"
    THEN LET e == native_codegen_expression(c, ret.value, REG_RAX)
         IN  IF ~e.ok THEN e ELSE Ok(FunctionEpilogue(e.c))
    ELSE Ok(FunctionEpilogue(emit_instruction_reg_imm(c, "INST_MOV", REG_RAX, 0)))

native_codegen_expression_stmt(c, expr_stmt) ==
    native_codegen_expression(c, expr_stmt.expression, REG_RAX)

RECURSIVE native_codegen_statement(_, _)
RECURSIVE BlockFrom(_, _, _)

\* Mutant: the loop goes on after a statement that does not lower, and
\* returns false at its end.
RECURSIVE BlockFrom_best_effort(_, _, _)
BlockFrom_best_effort(c, block, i) ==
    IF i > block.statement_count THEN Ok(c)
    ELSE LET s == native_codegen_statement(c, block.statements[i])
             rest == BlockFrom_best_effort(s.c, block, i + 1)
         IN  IF s.ok THEN rest ELSE Fail(rest.c)

\* The loop of native_codegen_block_stmt from statement i on.
BlockFrom(c, block, i) ==
    IF i > block.statement_count THEN Ok(c)
    ELSE LET s == native_codegen_statement(c, block.statements[i])
         IN  IF ~s.ok THEN s ELSE BlockFrom(s.c, block, i + 1)

native_codegen_block_stmt(c, block) == BlockFrom(c, block, 1)

native_codegen_statement(c, stmt) ==
    CASE stmt.type = "AST_VAR_DECLARATION" -> native_codegen_var_declaration(c, stmt)
      [] stmt.type = "AST_RETURN_STMT" -> native_codegen_return_stmt(c, stmt)
      [] stmt.type = "AST_BLOCK_STMT" -> native_codegen_block_stmt(c, stmt)
      [] stmt.type = "AST_EXPRESSION_STMT" -> native_codegen_expression_stmt(c, stmt)
      [] OTHER -> FailWith(c, "Unsupported statement type")

\* The first free slot, after the saved RBP.
FirstStackOffset == 8

\* Mutant: nothing is emitted after the body.
native_codegen_function_no_default_epilogue(c, func) ==
    LET s == add_function_symbol(c, func.name)
        c1 == [s.c EXCEPT !.current_function = func.name]
        c2 == emit_label(c1, s.func.label)
        c3 == emit_instruction_reg(c2, "INST_PUSH", REG_RBP)
        c4 == emit_instruction_reg_reg(c3, "INST_MOV", REG_RBP, REG_RSP)
        c5 == [c4 EXCEPT !.stack_offset = FirstStackOffset]
    IN  native_codegen_statement(c5, func.body)

native_codegen_function(c, func) ==
    LET s == add_function_symbol(c, func.name)
        c1 == [s.c EXCEPT !.current_function = func.name]
        c2 == emit_label(c1, s.func.label)
        c3 == emit_instruction_reg(c2, "INST_PUSH", REG_RBP)
        c4 == emit_instruction_reg_reg(c3, "INST_MOV", REG_RBP, REG_RSP)
        c5 == [c4 EXCEPT !.stack_offset = FirstStackOffset]
        b == native_codegen_statement(c5, func.body)
    IN  IF ~b.ok THEN b
        ELSE Ok(FunctionEpilogue(
                    emit_instruction_reg_imm(b.c, "INST_MOV", REG_RAX, 0)))

(***************************************************************************)
(* native_codegen_program, one loop iteration at a time.  Its locals are   *)
(* has_main and main_func (here the label of the symbol it points at,      *)
(* NoLabel for NULL).                                                      *)
(***************************************************************************)
\* The label of the first symbol named "main" from the head of c.functions.
FindMainLabel(c) ==
    LET found == {i \in 1..Len(c.functions) : c.functions[i].name = "main"}
    IN  IF found = {} THEN NoLabel
        ELSE c.functions[CHOOSE k \in found : \A j \in found : k <= j].label

\* The body of the loop for one declaration.
ProgramIteration(c, has_main, main_func, decl) ==
    IF decl.type # "AST_FUNCTION_DECLARATION"
    THEN [ok |-> TRUE, c |-> c, has_main |-> has_main, main_func |-> main_func]
    ELSE
    LET is_main == (decl.name = "main")
        f == native_codegen_function(c, decl)
    IN  [ok |-> f.ok, c |-> f.c,
         has_main |-> (has_main \/ is_main),
         main_func |-> IF f.ok /\ is_main /\ FindMainLabel(f.c) # NoLabel
                       THEN FindMainLabel(f.c) ELSE main_func]

\* The entry point: _start, the call of main, the exit system call.
EmitStart(c, main_func) ==
    LET c1 == emit_label(c, "_start")
        c2 == emit_instruction_label(c1, "INST_CALL",
                  IF main_func # NoLabel THEN main_func ELSE "func_0")
        c3 == emit_instruction_reg_reg(c2, "INST_MOV", REG_RDI, REG_RAX)
    IN  emit_syscall_exit(c3, 0)

\* Mutant: the entry point is emitted whether or not main was seen.
ProgramFinish_no_check(c, has_main, main_func) == Ok(EmitStart(c, main_func))

\* What follows the loop.
ProgramFinish(c, has_main, main_func) ==
    IF ~has_main
    THEN FailWith(c, "No main function found")
    ELSE Ok(EmitStart(c, main_func))

(***************************************************************************)
(* The machine code encoder.                                               *)
(***************************************************************************)
\* (imm >> (i * 8)) & 0xFF for i = 0 .. n-1: the low n bytes of a two's
\* complement integer, least significant first.
RECURSIVE LittleEndian(_, _)
LittleEndian(imm, n) ==
    IF n = 0 THEN << >>
    ELSE <<imm % 256>> \o LittleEndian(imm \div 256, n - 1)

\* Mutant: the two register fields of the ModRM byte change places.
ModRM_swapped(dst, src) == 192 + 8 * (dst % 8) + (src % 8)

\* 0xC0 | ((src & 7) << 3) | (dst & 7)
ModRM(dst, src) == 192 + 8 * (src % 8) + (dst % 8)

IsLabelMarker(inst) == inst.opcode = "INST_NOP" /\ inst.label # NoLabel

\* The bytes call is encoded as: 0xE8 and a zero displacement.
EncodeCall(inst) == <<232, 0, 0, 0, 0>>

\* The bytes the default case of the switch appends: one NOP.
EncodeUnsupported(inst) == <<144>>

\* The bytes the switch of generate_machine_code appends for one instruction.
EncodeInstruction(inst) ==
    LET ops == inst.operands
        n == inst.operand_count
        regreg == /\ n = 2
                  /\ ops[1].type = "OPERAND_REGISTER"
                  /\ ops[2].type = "OPERAND_REGISTER"
    IN  CASE inst.opcode = "INST_MOV" ->
                IF n # 2 THEN << >>
                ELSE IF ops[1].type = "OPERAND_REGISTER"
                        /\ ops[2].type = "OPERAND_IMMEDIATE"
                THEN <<72, 184 + (ops[1].reg % 8)>>
                     \o LittleEndian(ops[2].immediate, 8)
                ELSE IF regreg
                THEN <<72, 137, ModRM(ops[1].reg, ops[2].reg)>>
                ELSE <<72, 137, 192>>
          [] inst.opcode = "INST_PUSH" ->
                IF n = 1 /\ ops[1].type = "OPERAND_REGISTER"
                THEN <<80 + (ops[1].reg % 8)>> ELSE << >>
          [] inst.opcode = "INST_POP" ->
                IF n = 1 /\ ops[1].type = "OPERAND_REGISTER"
                THEN <<88 + (ops[1].reg % 8)>> ELSE << >>
          [] inst.opcode = "INST_CALL" -> EncodeCall(inst)
          [] inst.opcode = "INST_RET" -> <<195>>
          [] inst.opcode = "INST_SYSCALL" -> <<15, 5>>
          [] inst.opcode = "INST_ADD" ->
                IF regreg THEN <<72, 1, ModRM(ops[1].reg, ops[2].reg)>> ELSE << >>
          [] inst.opcode = "INST_SUB" ->
                IF regreg THEN <<72, 41, ModRM(ops[1].reg, ops[2].reg)>> ELSE << >>
          [] OTHER -> EncodeUnsupported(inst)

\* The buffer the encoder starts writing at: it never resets code_size.
EncoderStart(c) == c.code_buffer

\* Mutant: the buffer is written without the capacity check.
EncodeOne_no_growth(inst, buf, cap) ==
    [buf |-> buf \o EncodeInstruction(inst), cap |-> cap]

\* One pass of the loop body for an instruction that is not a label: the
\* capacity is doubled when fewer than 20 bytes are free, then the switch
\* writes the instruction's bytes.
EncodeOne(inst, buf, cap) ==
    [buf |-> buf \o EncodeInstruction(inst),
     cap |-> IF Len(buf) + 20 > cap THEN cap * 2 ELSE cap]

\* The loop of generate_machine_code from instruction i on; buf and cap are
\* code_buffer[0..code_size) and code_capacity.
RECURSIVE EncodeFrom(_, _, _, _)
EncodeFrom(insts, i, buf, cap) ==
    IF i > Len(insts) THEN [buf |-> buf, cap |-> cap]
    ELSE IF IsLabelMarker(insts[i]) THEN EncodeFrom(insts, i + 1, buf, cap)
    ELSE LET e == EncodeOne(insts[i], buf, cap)
         IN  EncodeFrom(insts, i + 1, e.buf, e.cap)

\* generate_machine_code: always returns true (realloc is taken to succeed).
generate_machine_code(c) ==
    LET e == EncodeFrom(c.instructions, 1, EncoderStart(c), c.code_capacity)
    IN  Ok([c EXCEPT !.code_buffer = e.buf, !.code_capacity = e.cap])

(***************************************************************************)
(* The ELF emitter.  A file is [exists, executable, content]; content is   *)
(* the sequence of chunks written to it.  opened and closed count the      *)
(* descriptors this process opened and closed.                             *)
(***************************************************************************)
\* e_entry of the header.
EntryAddress(c) == BASE_ADDRESS + SizeofELF64_Header + SizeofELF64_ProgramHeader

ElfHeader(c) ==
    [part |-> "ELF64_Header", size |-> SizeofELF64_Header,
     e_ident |-> <<127, 69, 76, 70, 2, 1, 1, 0, 0, 0, 0, 0, 0, 0, 0, 0>>,
     e_type |-> 2, e_machine |-> 62, e_version |-> 1,
     e_entry |-> EntryAddress(c),
     e_phoff |-> SizeofELF64_Header, e_shoff |-> 0, e_flags |-> 0,
     e_ehsize |-> SizeofELF64_Header,
     e_phentsize |-> SizeofELF64_ProgramHeader,
     e_phnum |-> 1, e_shentsize |-> 0, e_shnum |-> 0, e_shstrndx |-> 0]

\* Mutant: the segment sizes leave out the two headers.
ProgramHeader_code_only(c) ==
    [part |-> "ELF64_ProgramHeader", size |-> SizeofELF64_ProgramHeader,
     p_type |-> 1, p_flags |-> 5, p_offset |-> 0,
     p_vaddr |-> BASE_ADDRESS, p_paddr |-> BASE_ADDRESS,
     p_filesz |-> code_size(c), p_memsz |-> code_size(c),
     p_align |-> 4096]

ProgramHeader(c) ==
    [part |-> "ELF64_ProgramHeader", size |-> SizeofELF64_ProgramHeader,
     p_type |-> 1, p_flags |-> 5, p_offset |-> 0,
     p_vaddr |-> BASE_ADDRESS, p_paddr |-> BASE_ADDRESS,
     p_filesz |-> SizeofELF64_Header + SizeofELF64_ProgramHeader + code_size(c),
     p_memsz |-> SizeofELF64_Header + SizeofELF64_ProgramHeader + code_size(c),
     p_align |-> 4096]

CodeChunk(c) == [part |-> "code", size |-> code_size(c), bytes |-> c.code_buffer]

\* open(filename, O_WRONLY | O_CREAT | O_TRUNC, 0755): a new file gets the
\* mode of the call, an existing one is emptied and keeps its mode.
OpenCreatTrunc(f) ==
    [f EXCEPT !.exists = TRUE,
              !.executable = IF f.exists THEN f.executable ELSE TRUE,
              !.content = << >>,
              !.opened = @ + 1]

\* The three writes; written[k] tells whether write k transferred its bytes
\* (their results are not looked at).
WriteAll(f, chunks, written) ==
    [f EXCEPT !.content =
        @ \o (IF written[1] THEN <<chunks[1]>> ELSE << >>)
          \o (IF written[2] THEN <<chunks[2]>> ELSE << >>)
          \o (IF written[3] THEN <<chunks[3]>> ELSE << >>)]

\* Mutant: a write that fails returns at once, the descriptor left open.
generate_elf_executable_leak(c, f, open_ok, written) ==
    LET mc == generate_machine_code(c)
    IN  IF ~mc.ok THEN [ok |-> FALSE, c |-> mc.c, f |-> f]
        ELSE IF ~open_ok
        THEN [ok |-> FALSE,
              c |-> native_codegen_error(mc.c, "Could not create output file"),
              f |-> f]
        ELSE
        LET f1 == OpenCreatTrunc(f)
            f2 == WriteAll(f1, <<ElfHeader(mc.c), ProgramHeader(mc.c), CodeChunk(mc.c)>>,
                           written)
            all == written[1] /\ written[2] /\ written[3]
        IN  [ok |-> all, c |-> mc.c,
             f |-> IF all THEN [f2 EXCEPT !.closed = @ + 1] ELSE f2]

\* generate_elf_executable; open_ok and written are what the host does.
generate_elf_executable(c, f, open_ok, written) ==
    LET mc == generate_machine_code(c)
    IN  IF ~mc.ok THEN [ok |-> FALSE, c |-> mc.c, f |-> f]
        ELSE IF ~open_ok
        THEN [ok |-> FALSE,
              c |-> native_codegen_error(mc.c, "Could not create output file"),
              f |-> f]
        ELSE
        LET f1 == OpenCreatTrunc(f)
            f2 == WriteAll(f1, <<ElfHeader(mc.c), ProgramHeader(mc.c), CodeChunk(mc.c)>>,
                           written)
        IN  [ok |-> TRUE, c |-> mc.c, f |-> [f2 EXCEPT !.closed = @ + 1]]

(***************************************************************************)
(* The host that runs the emitted instructions: an abstract register and   *)
(* stack machine over the IR.  call pushes the index of the instruction    *)
(* after it and transfers to the instruction carrying the label; ret pops  *)
(* an index and transfers there; the stack grows down by 8 from address 0. *)
(* A read of a stack slot nothing wrote yields some value g.               *)
(***************************************************************************)
Registers == {REG_RAX, REG_RBX, REG_RSP, REG_RBP, REG_RDI}
UninitValues == {0, 85}

MachineOff ==
    [status |-> "off", ip |-> 0, regs |-> [r \in Registers |-> 0],
     mem |-> << >>, exit_status |-> 0, output |-> << >>]

MachineAt(ip) == [MachineOff EXCEPT !.status = "running", !.ip = ip]

\* The index of the first instruction carrying label, 0 if there is none.
LabelIndex(insts, label) ==
    LET found == {i \in 1..Len(insts) : insts[i].label = label}
    IN  IF found = {} THEN 0 ELSE CHOOSE k \in found : \A j \in found : k <= j

Load(mm, addr, g) == IF addr \in DOMAIN mm.mem THEN mm.mem[addr] ELSE g
Store(mm, addr, v) ==
    [a \in (DOMAIN mm.mem) \cup {addr} |-> IF a = addr THEN v ELSE mm.mem[a]]

\* Division truncating toward zero.
TruncDiv(a, b) ==
    LET abs(x) == IF x < 0 THEN -x ELSE x
        q == abs(a) \div abs(b)
    IN  IF (a < 0) = (b < 0) THEN q ELSE -q

Arith(opcode, a, b) ==
    CASE opcode = "INST_ADD" -> a + b
      [] opcode = "INST_SUB" -> a - b
      [] opcode = "INST_MUL" -> a * b
      [] opcode = "INST_DIV" -> TruncDiv(a, b)

\* One instruction executed.
MachineExecute(mm, insts, g) ==
    IF mm.ip \notin 1..Len(insts) THEN [mm EXCEPT !.status = "fell_off"]
    ELSE
    LET inst == insts[mm.ip]
        ops == inst.operands
        next == [mm EXCEPT !.ip = @ + 1]
        rsp == mm.regs[REG_RSP]
        \* the value of a source operand
        Src(o) == CASE o.type = "OPERAND_REGISTER" -> mm.regs[o.reg]
                    [] o.type = "OPERAND_IMMEDIATE" -> o.immediate
                    [] o.type = "OPERAND_MEMORY" ->
                           Load(mm, mm.regs[o.base] + o.offset, g)
    IN  CASE inst.opcode = "INST_NOP" -> next
          [] inst.opcode = "INST_MOV" ->
                IF ops[1].type = "OPERAND_REGISTER"
                THEN [next EXCEPT !.regs[ops[1].reg] = Src(ops[2])]
                ELSE [next EXCEPT !.mem =
                        Store(mm, mm.regs[ops[1].base] + ops[1].offset, Src(ops[2]))]
          [] inst.opcode = "INST_PUSH" ->
                [next EXCEPT !.regs[REG_RSP] = rsp - 8,
                             !.mem = Store(mm, rsp - 8, mm.regs[ops[1].reg])]
          [] inst.opcode = "INST_POP" ->
                [next EXCEPT !.regs[REG_RSP] = rsp + 8,
                             !.regs[ops[1].reg] = Load(mm, rsp, g)]
          [] inst.opcode \in {"INST_ADD", "INST_SUB", "INST_MUL", "INST_DIV"} ->
                IF inst.opcode = "INST_DIV" /\ Src(ops[2]) = 0
                THEN [mm EXCEPT !.status = "fault"]
                ELSE [next EXCEPT !.regs[ops[1].reg] =
                        Arith(inst.opcode, mm.regs[ops[1].reg], Src(ops[2]))]
          [] inst.opcode = "INST_CMP" -> next
          [] inst.opcode = "INST_CALL" ->
                LET target == LabelIndex(insts, ops[1].label)
                IN  IF target = 0 THEN [mm EXCEPT !.status = "fault"]
                    ELSE [mm EXCEPT !.ip = target,
                                    !.regs[REG_RSP] = rsp - 8,
                                    !.mem = Store(mm, rsp - 8, mm.ip + 1)]
          [] inst.opcode = "INST_RET" ->
                [mm EXCEPT !.ip = Load(mm, rsp, g), !.regs[REG_RSP] = rsp + 8]
          [] inst.opcode = "INST_SYSCALL" ->
                \* exit(rdi); write (system call 1) is one more write observed
                IF mm.regs[REG_RAX] = SYS_exit
                THEN [mm EXCEPT !.status = "exited",
                                !.exit_status = mm.regs[REG_RDI]]
                ELSE IF mm.regs[REG_RAX] = 1
                THEN [next EXCEPT !.output = Append(@, "write")]
                ELSE [mm EXCEPT !.status = "fault"]
          [] OTHER -> [mm EXCEPT !.status = "fault"]

(***************************************************************************)
(* The inputs: a catalogue of programs, and the family of binary           *)
(* expressions whose two operands are binary expressions over literals.    *)
(***************************************************************************)
Num(v) == ast_create_literal_number(v)
Id(name) == ast_create_identifier(name)
Bin(op, l, r) == ast_create_binary_expr(op, l, r)
Var(name, type, init) == ast_create_var_declaration(name, type, FALSE, init)
Ret(e) == ast_create_return_stmt(e)
Fn(name, stmts) == ast_create_function_declaration(name, ast_create_block_stmt(stmts))
PrintCall(arg) ==
    ast_create_expression_stmt(ast_create_call_expr(Id("print"), <<arg>>))

Programs ==
    << \* 1: func main() -> i32 { return 42; }
       ast_create_program(<<Fn("main", <<Ret(Num(42))>>)>>),
       \* 2: a function before main
       ast_create_program(<<Fn("f", <<Ret(Num(1))>>), Fn("main", <<Ret(Num(7))>>)>>),
       \* 3: a function after main
       ast_create_program(<<Fn("main", <<Ret(Num(7))>>), Fn("f", <<Ret(Num(1))>>)>>),
       \* 4: main prints a literal
       ast_create_program(<<Fn("main",
           <<PrintCall(ast_create_literal_string("hello")), Ret(Num(0))>>)>>),
       \* 5: no main
       ast_create_program(<<Fn("f", <<Ret(Num(1))>>)>>),
       \* 6: no main, and f does not lower
       ast_create_program(<<Fn("f", <<Ret(Id("x"))>>)>>),
       \* 7: no declaration at all
       ast_create_program(<< >>),
       \* 8: locals of several types in two functions
       ast_create_program(
         <<Fn("f", <<Var("p", "TYPE_F64", Num(3)), Ret(Id("p"))>>),
           Fn("main", <<Var("a", "TYPE_I32", Num(1)),
                        Var("b", "TYPE_STRING", ast_create_literal_string("B")),
                        Var("c", "TYPE_BOOL", ast_create_literal_boolean(TRUE)),
                        Ret(Id("a"))>>)>>),
       \* 9: main uses a local of f
       ast_create_program(
         <<Fn("f", <<Var("x", "TYPE_I32", Num(5))>>),
           Fn("main", <<Var("y", "TYPE_I32", Num(1)), Ret(Id("x"))>>)>>),
       \* 10: return ((1 + 2) * (3 + 4));
       ast_create_program(<<Fn("main",
           <<Ret(Bin("BINARY_MULTIPLY", Bin("BINARY_ADD", Num(1), Num(2)),
                                        Bin("BINARY_ADD", Num(3), Num(4))))>>)>>),
       \* 11: unary minus and logical not
       ast_create_program(<<Fn("main",
           <<Var("n", "TYPE_BOOL",
                 ast_create_unary_expr("UNARY_NOT", ast_create_literal_boolean(TRUE))),
             Ret(ast_create_unary_expr("UNARY_MINUS", Num(5)))>>)>>),
       \* 12: x = 5; return 1 + x;
       ast_create_program(<<Fn("main",
           <<Var("x", "TYPE_I32", Num(5)),
             Ret(Bin("BINARY_ADD", Num(1), Id("x")))>>)>>),
       \* 13: two functions named main
       ast_create_program(<<Fn("main", <<Ret(Num(1))>>), Fn("main", <<Ret(Num(2))>>)>>),
       \* 14: a = "A"; b = "B"; print(a)
       ast_create_program(<<Fn("main",
           <<Var("a", "TYPE_STRING", ast_create_literal_string("A")),
             Var("b", "TYPE_STRING", ast_create_literal_string("B")),
             PrintCall(Id("a"))>>)>>),
       \* 15: a statement the backend does not lower, after a declaration
       ast_create_program(<<Fn("main",
           <<Var("a", "TYPE_I32", Num(1)),
             ast_create_if_stmt(ast_create_literal_boolean(TRUE), Ret(Num(1))),
             Var("b", "TYPE_I32", Num(2))>>)>>),
       \* 16: a call of a user function
       ast_create_program(
         <<Fn("f", <<Ret(Num(1))>>),
           Fn("main", <<Ret(ast_create_call_expr(Id("f"), << >>))>>)>>),
       \* 17: an operator the backend does not lower
       ast_create_program(<<Fn("main",
           <<Ret(Bin("BINARY_MODULO", Num(7), Num(2)))>>)>>),
       \* 18: a top-level variable, a redeclared local, a declaration
       \*     without initializer, a nested block, a return without value
       ast_create_program(
         <<Var("g", "TYPE_I32", Num(9)),
           Fn("main", <<Var("x", "TYPE_I32", Num(1)),
                        Var("x", "TYPE_I32", Num(2)),
                        Var("u", "TYPE_I32", NullNode),
                        ast_create_block_stmt(<<Var("w", "TYPE_I32", ast_create_literal_null)>>),
                        Ret(NullNode)>>)>>),
       \* 19: functions whose names look like generated labels
       ast_create_program(
         <<Fn("func_1", <<Ret(Num(1))>>), Fn("_start", <<Ret(Num(2))>>),
           Fn("main", <<Ret(Num(3))>>)>>),
       \* 20: not a program node
       Fn("main", <<Ret(Num(1))>>),
       \* 21: a null pointer in place of the program
       NullNode,
       \* 22: a first function whose name is what the label generator
       \*     produces first
       ast_create_program(
         <<Fn("func_0", <<Ret(Num(1))>>), Fn("main", <<Ret(Num(2))>>)>>),
       \* 23: a name declared twice, then read
       ast_create_program(<<Fn("main",
           <<Var("x", "TYPE_I32", Num(1)),
             Var("x", "TYPE_I32", Num(2)),
             Ret(Id("x"))>>)>>)
    >>

BinaryOperators ==
    {"BINARY_ADD", "BINARY_SUBTRACT", "BINARY_MULTIPLY", "BINARY_DIVIDE"}

\* Whether no division of the expression divides by 0, and its value then.
RECURSIVE Eval(_)
Eval(e) ==
    IF e.type = "AST_LITERAL_EXPR" THEN e.value
    ELSE CASE e.operator = "BINARY_ADD" -> Eval(e.left) + Eval(e.right)
           [] e.operator = "BINARY_SUBTRACT" -> Eval(e.left) - Eval(e.right)
           [] e.operator = "BINARY_MULTIPLY" -> Eval(e.left) * Eval(e.right)
           [] e.operator = "BINARY_DIVIDE" ->
                  IF Eval(e.right) = 0 THEN 0
                  ELSE TruncDiv(Eval(e.left), Eval(e.right))
RECURSIVE Defined(_)
Defined(e) ==
    \/ e.type = "AST_LITERAL_EXPR"
    \/ /\ Defined(e.left)
       /\ Defined(e.right)
       /\ (e.operator = "BINARY_DIVIDE" => Eval(e.right) # 0)

\* ((1 + 2) * (3 + 4))
ExampleExpr ==
    Bin("BINARY_MULTIPLY", Bin("BINARY_ADD", Num(1), Num(2)),
                           Bin("BINARY_ADD", Num(3), Num(4)))

NestedExprs ==
    {ExampleExpr} \cup
    {e \in {Bin(o, Bin(o1, Num(a), Num(b)), Bin(o2, Num(c), Num(d))) :
              o \in BinaryOperators, o1 \in BinaryOperators, o2 \in BinaryOperators,
              a \in 1..MaxLit, b \in 1..MaxLit, c \in 1..MaxLit, d \in 1..MaxLit} :
        Defined(e)}

\* Binary expressions nested deeper, on the left, on the right and on both
\* sides.
DeepExprs ==
    {Bin("BINARY_ADD", ExampleExpr, ExampleExpr),
     Bin("BINARY_SUBTRACT",
         Bin("BINARY_MULTIPLY", ExampleExpr, Bin("BINARY_ADD", Num(1), Num(2))),
         Bin("BINARY_ADD", Num(1), Num(2))),
     Bin("BINARY_SUBTRACT",
         Bin("BINARY_ADD", Num(1), Num(2)),
         Bin("BINARY_DIVIDE", Bin("BINARY_ADD", Num(5), Num(4)),
                              Bin("BINARY_SUBTRACT", ExampleExpr, Num(18))))}

(***************************************************************************)
(* The state.                                                              *)
(*   input   what is compiled: the index of a program of the catalogue,    *)
(*           or an expression and its destination register                 *)
(*   driver  who calls the backend: "main" (main.c's native pipeline),     *)
(*           "api" (a client of native_codegen.h, any calls in any         *)
(*           order), "run" (compile, then run the IR on the host),         *)
(*           "expr" (lower one expression, then run it)                    *)
(*   pc      the driver's position                                         *)
(*   cg      the NativeCodeGen context                                     *)
(*   call    the activation of native_codegen_program in progress          *)
(*   fs      the output path's file                                        *)
(*   last    the last call that returned, and its result                   *)
(*   calls   the calls the "api" client has made                           *)
(*   hist    what the encoder ran on before: the encoder runs since the    *)
(*           instruction sequence last changed, and the code buffer as     *)
(*           the run before the last one left it                           *)
(*   m       the host machine                                              *)
(***************************************************************************)
VARIABLES input, driver, pc, cg, call, fs, last, calls, hist, m

vars == <<input, driver, pc, cg, call, fs, last, calls, hist, m>>

NoCall ==
    [active |-> FALSE, i |-> 0, has_main |-> FALSE, main_func |-> NoLabel,
     vars_before |-> 0, lowered |-> 0]

FileAbsent ==
    [exists |-> FALSE, executable |-> FALSE, content |-> << >>,
     opened |-> 0, closed |-> 0]
\* A file somebody left at the output path, without execute permission.
FileOld ==
    [exists |-> TRUE, executable |-> FALSE, content |-> <<[part |-> "old"]>>,
     opened |-> 0, closed |-> 0]

NoHist == [encode_runs |-> 0, prev_code |-> << >>]

InitCommon ==
    /\ cg = native_codegen_create
    /\ call = NoCall
    /\ last = [op |-> "none", ok |-> TRUE]
    /\ calls = 0
    /\ hist = NoHist
    /\ m = MachineOff

Init ==
    /\ input \in [prog : 1..Len(Programs), expr : {NullNode}, dest : {REG_RAX}]
    /\ driver \in {"main", "api"}
    /\ pc = IF driver = "main" THEN "codegen" ELSE "api"
    /\ fs \in {FileAbsent, FileOld}
    /\ InitCommon

InitRun ==
    /\ input \in [prog : 1..Len(Programs), expr : {NullNode}, dest : {REG_RAX}]
    /\ driver = "run"
    /\ pc = "codegen"
    /\ fs = FileAbsent
    /\ InitCommon

InitExpr ==
    /\ input \in [prog : {0}, expr : NestedExprs \cup DeepExprs,
                  dest : {REG_RAX, REG_RBX}]
    /\ driver = "expr"
    /\ pc = "lower"
    /\ fs = FileAbsent
    /\ InitCommon

\* A client that emits instructions itself and then runs the encoder.
InitEnc ==
    /\ input \in [prog : {0}, expr : {NullNode}, dest : {REG_RAX}]
    /\ driver = "enc"
    /\ pc = "emit"
    /\ fs = FileAbsent
    /\ InitCommon

\* main.c's pipeline on a host whose allocator fails once.
InitOom ==
    /\ input \in [prog : 1..Len(Programs), expr : {NullNode}, dest : {REG_RAX}]
    /\ driver = "main"
    /\ pc = "codegen"
    /\ fs = FileAbsent
    /\ \E k \in 1..MaxMallocs :
          cg = [native_codegen_create EXCEPT !.mallocs_left = k]
    /\ call = NoCall
    /\ last = [op |-> "none", ok |-> TRUE]
    /\ calls = 0
    /\ hist = NoHist
    /\ m = MachineOff

\* Instruction sequences long enough for the code to outgrow the buffer:
\* one pattern of instructions, repeated.
CapPatterns ==
    {<<Instruction("INST_MOV", <<OperandRegister(REG_RDI), OperandImmediate(60)>>, NoLabel)>>,
     <<Instruction("INST_MOV", <<OperandRegister(REG_RBP), OperandRegister(REG_RSP)>>, NoLabel)>>,
     <<Instruction("INST_NOP", << >>, "func_0"),
       Instruction("INST_MOV", <<OperandRegister(REG_RAX), OperandImmediate(1)>>, NoLabel),
       Instruction("INST_PUSH", <<OperandRegister(REG_RAX)>>, NoLabel),
       Instruction("INST_SYSCALL", << >>, NoLabel)>>}

\* A client that emitted CapInsts instructions and runs the encoder on
\* them, observed one loop pass at a time.
InitCap ==
    /\ input \in [prog : {0}, expr : {NullNode}, dest : {REG_RAX}]
    /\ driver = "cap"
    /\ pc = "idle"
    /\ fs = FileAbsent
    /\ \E p \in CapPatterns :
          cg = [native_codegen_create EXCEPT
                   !.instructions = [k \in 1..CapInsts |-> p[((k - 1) % Len(p)) + 1]]]
    /\ call = NoCall
    /\ last = [op |-> "none", ok |-> TRUE]
    /\ calls = 0
    /\ hist = NoHist
    /\ m = MachineOff

\* Whether the driver is at a point where it makes this call.
MayCall(op) ==
    /\ ~call.active
    /\ m.status = "off"
    /\ IF driver = "api" THEN calls < MaxCalls
       ELSE IF driver = "enc" THEN op = "encode" /\ pc = "emit"
       ELSE IF op = "generate" THEN pc = "codegen"
       ELSE IF op = "elf" THEN pc = "emit"
       ELSE FALSE

\* main.c after a call returned: a failed call ends the process with 1.
PcAfter(op, ok) ==
    IF driver = "api" THEN pc
    ELSE IF driver = "enc" THEN "done"
    ELSE IF ~ok THEN "exit1"
    ELSE IF op = "generate" THEN (IF driver = "main" THEN "emit" ELSE "run")
    ELSE "exit0"

\* The encoder history once a call may have appended instructions.
HistAfter(c) == IF c.instructions = cg.instructions THEN hist ELSE NoHist

\* native_codegen_generate up to the loop of native_codegen_program.
NativeCodegenGenerate ==
    /\ MayCall("generate")
    /\ calls' = calls + 1
    /\ LET program == Programs[input.prog]
       IN  IF program.type = "NULL" \/ program.type # "AST_PROGRAM"
           THEN /\ cg' = native_codegen_error(cg,
                            IF program.type = "NULL" THEN "Invalid arguments"
                            ELSE "Expected program node")
                /\ last' = [op |-> "generate", ok |-> FALSE]
                /\ pc' = PcAfter("generate", FALSE)
                /\ call' = NoCall
           ELSE /\ call' = [NoCall EXCEPT !.active = TRUE, !.i = 1]
                /\ UNCHANGED <<cg, last, pc>>
    /\ UNCHANGED <<input, driver, fs, hist, m>>

\* One iteration of the loop; a function that does not lower returns false.
ProgramLoop ==
    /\ call.active
    /\ call.i <= Programs[input.prog].declaration_count
    /\ LET decl == Programs[input.prog].declarations[call.i]
           r == ProgramIteration(cg, call.has_main, call.main_func, decl)
       IN  /\ cg' = r.c
           /\ hist' = HistAfter(r.c)
           /\ IF r.ok
              THEN /\ call' = [call EXCEPT !.i = @ + 1,
                                           !.has_main = r.has_main,
                                           !.main_func = r.main_func,
                                           !.vars_before = Len(cg.variables),
                                           !.lowered = call.i]
                   /\ UNCHANGED <<last, pc>>
              ELSE /\ call' = NoCall
                   /\ last' = [op |-> "generate", ok |-> FALSE]
                   /\ pc' = PcAfter("generate", FALSE)
    /\ UNCHANGED <<input, driver, fs, calls, m>>

\* After the loop: the main check, the entry point, the return.
ProgramEnd ==
    /\ call.active
    /\ call.i > Programs[input.prog].declaration_count
    /\ LET r == ProgramFinish(cg, call.has_main, call.main_func)
       IN  /\ cg' = r.c
           /\ hist' = HistAfter(r.c)
           /\ last' = [op |-> "generate", ok |-> r.ok]
           /\ pc' = PcAfter("generate", r.ok)
    /\ call' = [call EXCEPT !.active = FALSE]
    /\ UNCHANGED <<input, driver, fs, calls, m>>

GenerateMachineCode ==
    /\ driver \in {"api", "enc"}
    /\ MayCall("encode")
    /\ calls' = calls + 1
    /\ LET r == generate_machine_code(cg)
       IN  /\ cg' = r.c
           /\ last' = [op |-> "encode", ok |-> r.ok]
           /\ pc' = PcAfter("encode", r.ok)
    /\ hist' = [encode_runs |-> hist.encode_runs + 1, prev_code |-> cg.code_buffer]
    /\ UNCHANGED <<input, driver, call, fs, m>>

GenerateElfExecutable ==
    /\ MayCall("elf")
    /\ calls' = calls + 1
    /\ \E open_ok \in BOOLEAN, written \in [1..3 -> BOOLEAN] :
         LET r == generate_elf_executable(cg, fs, open_ok, written)
         IN  /\ cg' = r.c
             /\ fs' = r.f
             /\ last' = [op |-> "elf", ok |-> r.ok]
             /\ pc' = PcAfter("elf", r.ok)
    /\ hist' = [encode_runs |-> hist.encode_runs + 1, prev_code |-> cg.code_buffer]
    /\ UNCHANGED <<input, driver, call, m>>

\* native_codegen_expression called on the fresh context.
NativeCodegenExpression ==
    /\ driver = "expr"
    /\ pc = "lower"
    /\ LET r == native_codegen_expression(cg, input.expr, input.dest)
       IN  /\ cg' = r.c
           /\ last' = [op |-> "expression", ok |-> r.ok]
           /\ pc' = IF r.ok THEN "run" ELSE "exit1"
    /\ UNCHANGED <<input, driver, call, fs, calls, hist, m>>

\* The registers, immediates and labels the client of the emitters uses.
EmitRegisters == {REG_RDI, REG_R8}
EmitImmediates == {-2, 60, 256}
EmitLabels == {"func_0"}

\* One call of an emit_* function, for a form the encoder has bytes for.
EmitInstruction ==
    /\ driver = "enc"
    /\ pc = "emit"
    /\ Len(cg.instructions) < MaxInsts
    /\ \/ \E reg \in EmitRegisters, imm \in EmitImmediates :
             cg' = emit_instruction_reg_imm(cg, "INST_MOV", reg, imm)
       \/ \E opcode \in {"INST_MOV", "INST_ADD", "INST_SUB"},
              dst \in EmitRegisters, src \in EmitRegisters :
             cg' = emit_instruction_reg_reg(cg, opcode, dst, src)
       \/ \E opcode \in {"INST_PUSH", "INST_POP"}, reg \in EmitRegisters :
             cg' = emit_instruction_reg(cg, opcode, reg)
       \/ \E opcode \in {"INST_SYSCALL", "INST_RET"} :
             cg' = emit_instruction(cg, opcode)
       \/ \E label \in EmitLabels :
             cg' = emit_instruction_label(cg, "INST_CALL", label)
       \/ \E label \in EmitLabels :
             cg' = emit_label(cg, label)
    /\ UNCHANGED <<input, driver, pc, call, fs, last, calls, hist, m>>

\* generate_machine_code, one pass of its loop at a time; call.i is the
\* position of inst in the sequence.
EncoderBegin ==
    /\ driver = "cap"
    /\ pc = "idle"
    /\ calls < MaxRuns
    /\ calls' = calls + 1
    /\ pc' = "encoding"
    /\ call' = [NoCall EXCEPT !.i = 1]
    /\ hist' = [encode_runs |-> hist.encode_runs + 1, prev_code |-> cg.code_buffer]
    /\ UNCHANGED <<input, driver, cg, fs, last, m>>

EncoderStep ==
    /\ driver = "cap"
    /\ pc = "encoding"
    /\ call.i <= Len(cg.instructions)
    /\ LET inst == cg.instructions[call.i]
           e == EncodeOne(inst, cg.code_buffer, cg.code_capacity)
       IN  cg' = IF IsLabelMarker(inst) THEN cg
                 ELSE [cg EXCEPT !.code_buffer = e.buf, !.code_capacity = e.cap]
    /\ call' = [call EXCEPT !.i = @ + 1]
    /\ UNCHANGED <<input, driver, pc, fs, last, calls, hist, m>>

EncoderEnd ==
    /\ driver = "cap"
    /\ pc = "encoding"
    /\ call.i > Len(cg.instructions)
    /\ pc' = "idle"
    /\ call' = NoCall
    /\ last' = [op |-> "encode", ok |-> TRUE]
    /\ UNCHANGED <<input, driver, cg, fs, calls, hist, m>>

\* The host starts at _start, or at the first instruction of an expression.
MachineStart ==
    /\ pc = "run"
    /\ m.status = "off"
    /\ m' = MachineAt(IF driver = "expr" THEN 1
                      ELSE LabelIndex(cg.instructions, "_start"))
    /\ UNCHANGED <<input, driver, pc, cg, call, fs, last, calls, hist>>

MachineStep ==
    /\ m.status = "running"
    /\ \E g \in UninitValues : m' = MachineExecute(m, cg.instructions, g)
    /\ UNCHANGED <<input, driver, pc, cg, call, fs, last, calls, hist>>

Next ==
    \/ NativeCodegenGenerate
    \/ ProgramLoop
    \/ ProgramEnd
    \/ GenerateMachineCode
    \/ GenerateElfExecutable

NextRun ==
    \/ NativeCodegenGenerate
    \/ ProgramLoop
    \/ ProgramEnd
    \/ MachineStart
    \/ MachineStep

NextExpr ==
    \/ NativeCodegenExpression
    \/ MachineStart
    \/ MachineStep

NextEnc ==
    \/ EmitInstruction
    \/ GenerateMachineCode

NextOom ==
    \/ NativeCodegenGenerate
    \/ ProgramLoop
    \/ ProgramEnd
    \/ GenerateElfExecutable

NextCap ==
    \/ EncoderBegin
    \/ EncoderStep
    \/ EncoderEnd

Spec == Init /\ [][Next]_vars
SpecRun == InitRun /\ [][NextRun]_vars
SpecExpr == InitExpr /\ [][NextExpr]_vars
SpecEnc == InitEnc /\ [][NextEnc]_vars
SpecOom == InitOom /\ [][NextOom]_vars
SpecCap == InitCap /\ [][NextCap]_vars

(***************************************************************************)
(* Properties.                                                             *)
(***************************************************************************)
TheProgram == Programs[input.prog]
IsProgram == input.prog # 0 /\ TheProgram.type = "AST_PROGRAM"

\* The declarations that are functions named name.
FunctionsNamed(name) ==
    {i \in 1..TheProgram.declaration_count :
        /\ TheProgram.declarations[i].type = "AST_FUNCTION_DECLARATION"
        /\ TheProgram.declarations[i].name = name}
NoMain == IsProgram /\ FunctionsNamed("main") = {}
OneMain == IsProgram /\ Cardinality(FunctionsNamed("main")) = 1
MainBody == TheProgram.declarations[CHOOSE i \in FunctionsNamed("main") : TRUE].body

\* main is { return v; } for a numeric literal v.
MainReturnsLiteral ==
    /\ OneMain
    /\ MainBody.statement_count = 1
    /\ MainBody.statements[1].type = "AST_RETURN_STMT"
    /\ MainBody.statements[1].value.type = "AST_LITERAL_EXPR"
    /\ MainBody.statements[1].value.literal_type = "LITERAL_NUMBER"
MainReturnValue == MainBody.statements[1].value.value

\* C1: for a program whose main returns the constant v, the run of the
\* emitted instructions from _start reaches the exit system call with RDI
\* equal to v.
C1_ExitStatusIsMainsValue ==
    (MainReturnsLiteral /\ m.status = "exited")
        => m.exit_status = MainReturnValue

\* The byte offset of instruction i in the encoding of insts, and the
\* offset of the instruction carrying a label.
RECURSIVE OffsetOf(_, _)
OffsetOf(insts, i) ==
    IF i <= 1 THEN 0
    ELSE OffsetOf(insts, i - 1)
         + (IF IsLabelMarker(insts[i - 1]) THEN 0
            ELSE Len(EncodeInstruction(insts[i - 1])))
LabelOffset(insts, label) == OffsetOf(insts, LabelIndex(insts, label))

\* The signed 32-bit value of four little-endian bytes of buf after site.
Displacement(buf, site) ==
    buf[site + 2] + 256 * buf[site + 3] + 65536 * buf[site + 4]
    + 16777216 * (IF buf[site + 5] >= 128 THEN buf[site + 5] - 256 ELSE buf[site + 5])

BranchOpcodes ==
    {"INST_CALL", "INST_JMP", "INST_JE", "INST_JNE", "INST_JL", "INST_JLE",
     "INST_JG", "INST_JGE"}

\* The code buffer holds one encoding of the present instruction sequence.
EncodedOnce == hist.encode_runs = 1 /\ hist.prev_code = << >>

\* C2: every call or jump to a label is encoded with the displacement that
\* leads from the end of the instruction to the label's offset.
C2_DisplacementReachesTarget ==
    EncodedOnce =>
        \A i \in 1..Len(cg.instructions) :
            LET inst == cg.instructions[i]
                site == OffsetOf(cg.instructions, i)
            IN  (/\ inst.opcode \in BranchOpcodes
                 /\ inst.operand_count = 1
                 /\ inst.operands[1].type = "OPERAND_LABEL"
                 /\ LabelIndex(cg.instructions, inst.operands[1].label) # 0)
                => site + Len(EncodeInstruction(inst))
                        + Displacement(cg.code_buffer, site)
                   = LabelOffset(cg.instructions, inst.operands[1].label)

\* The ELF header of the file, when its first chunk is one.
FileHasHeader ==
    /\ fs.content # << >>
    /\ fs.content[1].part = "ELF64_Header"

\* C3: e_entry is the load base plus both headers plus the offset of _start.
C3_EntryIsStart ==
    (/\ last = [op |-> "elf", ok |-> TRUE]
     /\ EncodedOnce
     /\ FileHasHeader
     /\ LabelIndex(cg.instructions, "_start") # 0)
    => fs.content[1].e_entry
         = BASE_ADDRESS + SizeofELF64_Header + SizeofELF64_ProgramHeader
           + LabelOffset(cg.instructions, "_start")

\* The index of the pop that brings back the left operand of the whole
\* expression: the operator instruction follows it, then the move to the
\* destination when that is not RAX.
OuterPop ==
    Len(cg.instructions) - 1 - (IF input.dest # REG_RAX THEN 1 ELSE 0)

\* C4: run on the host, the instructions lowered from a binary expression
\* over two binary expressions leave its value in the destination register;
\* the pop of the left operand finds the value that was pushed, with the
\* right operand's value in RBX, and the stack is as it was.
C4_NestedBinaryValue ==
    (driver = "expr" /\ m.status # "off") =>
        /\ (m.status = "running" /\ m.ip = OuterPop) =>
              /\ m.regs[REG_RSP] \in DOMAIN m.mem
              /\ m.mem[m.regs[REG_RSP]] = Eval(input.expr.left)
              /\ m.regs[REG_RBX] = Eval(input.expr.right)
        /\ m.status # "fault"
        /\ m.status = "fell_off" =>
              /\ m.regs[input.dest] = Eval(input.expr)
              /\ m.regs[REG_RSP] = 0

\* ((1 + 2) * (3 + 4)) has run and left 21.
C4_Witness ==
    /\ input.expr = ExampleExpr
    /\ m.status = "fell_off"
    /\ m.regs[input.dest] = 21

\* The variable declarations a statement holds, nested blocks included.
RECURSIVE NumVarDeclarations(_)
RECURSIVE NumVarDeclarationsIn(_, _)
NumVarDeclarationsIn(stmts, i) ==
    IF i > Len(stmts) THEN 0
    ELSE NumVarDeclarations(stmts[i]) + NumVarDeclarationsIn(stmts, i + 1)
NumVarDeclarations(stmt) ==
    CASE stmt.type = "AST_VAR_DECLARATION" -> 1
      [] stmt.type = "AST_BLOCK_STMT" -> NumVarDeclarationsIn(stmt.statements, 1)
      [] OTHER -> 0

\* The stack offsets given out while the function lowered last was lowered,
\* in declaration order (the list's head is the newest symbol).
LastFunctionOffsets ==
    LET k == Len(cg.variables) - call.vars_before
    IN  [j \in 1..k |-> cg.variables[k - j + 1].stack_offset]
LastLoweredFunction ==
    /\ call.lowered # 0
    /\ TheProgram.declarations[call.lowered].type = "AST_FUNCTION_DECLARATION"

\* C5: a function with k local variable declarations gets the offsets
\* 8, 16, ..., 8k in declaration order.
C5_OffsetsAreMultiplesOfEight ==
    LastLoweredFunction =>
        LastFunctionOffsets =
            [j \in 1..NumVarDeclarations(TheProgram.declarations[call.lowered].body)
                |-> 8 * j]

\* main of program 8 was lowered after f: three locals of three types, on
\* a context that already holds f's local.
C5_Witness ==
    /\ LastLoweredFunction
    /\ call.vars_before > 0
    /\ LastFunctionOffsets = <<8, 16, 24>>

\* C6 as stated: without a function main, native_codegen_generate returns
\* false with "No main function found", and main.c leaves the output path
\* alone.
C6_NoMainFound ==
    (NoMain /\ last.op = "generate" /\ ~call.active) =>
        /\ ~last.ok
        /\ cg.error_message = "No main function found"
        /\ (driver = "main" => pc = "exit1" /\ fs \in {FileAbsent, FileOld})

\* C6 as amended: the message is "No main function found" when the loop
\* over the declarations came to its end; a function that does not lower
\* returns false before, with its own message.
C6_NoMainFails ==
    /\ (NoMain /\ last.op = "generate" /\ ~call.active) =>
          /\ ~last.ok
          /\ cg.had_error
          /\ (call.i > TheProgram.declaration_count
                 => cg.error_message = "No main function found")
    /\ (NoMain /\ driver = "main") =>
          /\ pc \in {"codegen", "exit1"}
          /\ fs \in {FileAbsent, FileOld}

C6_Witness ==
    /\ NoMain
    /\ driver = "main"
    /\ pc = "exit1"
    /\ cg.error_message = "No main function found"
    /\ fs = FileOld

\* C7: a second run of the encoder on the same instructions leaves the code
\* buffer as the first run left it.
C7_EncoderIdempotent ==
    hist.encode_runs >= 2 => cg.code_buffer = hist.prev_code

\* The print("...") statements of main's body, as the literals they print.
PrintedLiterals ==
    LET stmts == MainBody.statements
        IsPrint(s) == /\ s.type = "AST_EXPRESSION_STMT"
                      /\ s.expression.type = "AST_CALL_EXPR"
                      /\ s.expression.callee.type = "AST_IDENTIFIER_EXPR"
                      /\ s.expression.callee.name = "print"
                      /\ s.expression.argument_count = 1
                      /\ s.expression.arguments[1].type = "AST_LITERAL_EXPR"
                      /\ s.expression.arguments[1].literal_type = "LITERAL_STRING"
    IN  {i \in 1..Len(stmts) : IsPrint(stmts[i])}

\* C8: with one print of a literal in main, the run of the emitted
\* instructions writes once, and the compiler itself prints nothing.
C8_PrintedOnceAtRunTime ==
    (OneMain /\ Cardinality(PrintedLiterals) = 1 /\ m.status = "exited") =>
        /\ Len(m.output) = 1
        /\ cg.stdout = << >>

EncodedOpcodes ==
    {"INST_MOV", "INST_PUSH", "INST_POP", "INST_CALL", "INST_RET",
     "INST_SYSCALL", "INST_ADD", "INST_SUB"}
HasNoEncoding(inst) == ~IsLabelMarker(inst) /\ inst.opcode \notin EncodedOpcodes

\* C9: the encoder, run on a sequence holding an instruction whose opcode
\* has no encoding, fails with an error and emits no nop for it.
C9_UnsupportedOpcodeFails ==
    (/\ last.op = "encode"
     /\ hist.encode_runs >= 1
     /\ \E i \in 1..Len(cg.instructions) : HasNoEncoding(cg.instructions[i]))
    => /\ ~last.ok
       /\ cg.had_error
       /\ \A i \in 1..Len(cg.instructions) :
            HasNoEncoding(cg.instructions[i])
                => EncodeInstruction(cg.instructions[i]) # <<144>>

\* C10: the context keeps the message of the first error reported.
C10_FirstErrorWins ==
    Len(cg.stderr) >= 2 => cg.error_message = cg.stderr[1]

\* The content of a file that holds the whole image, in order.
IsCompleteImage(content) ==
    /\ Len(content) = 3
    /\ content[1].part = "ELF64_Header"
    /\ content[2].part = "ELF64_ProgramHeader"
    /\ content[3].part = "code"

\* C11: after generate_elf_executable the output path holds the complete
\* image or nothing this call wrote; a call that did not write all of it
\* returned false.
C11_CompleteOrNotWritten ==
    last.op = "elf" =>
        /\ fs.exists =>
              \/ fs.content = FileOld.content
              \/ IsCompleteImage(fs.content)
        /\ last.ok => IsCompleteImage(fs.content)

\* The layout of the image: the header, one program header, the code.
ImageLayout(content) ==
    LET h == content[1]
        p == content[2]
        k == content[3]
    IN  /\ h.part = "ELF64_Header"
        /\ h.size = 64
        /\ SubSeq(h.e_ident, 1, 6) = <<127, 69, 76, 70, 2, 1>>
        /\ h.e_type = 2
        /\ h.e_machine = 62
        /\ h.e_phnum = 1
        /\ h.e_phoff = 64
        /\ p.part = "ELF64_ProgramHeader"
        /\ p.size = 56
        /\ p.p_type = 1
        /\ p.p_flags = 5
        /\ p.p_vaddr = 4194304
        /\ p.p_filesz = 64 + 56 + Len(cg.code_buffer)
        /\ p.p_memsz = 64 + 56 + Len(cg.code_buffer)
        /\ k.part = "code"
        /\ k.size = Len(cg.code_buffer)
        /\ k.bytes = cg.code_buffer

Returns(op) ==
    /\ ~call'.active
    /\ call.active \/ calls' # calls
    /\ last'.op = op

RECURSIVE NamesRead(_)
RECURSIVE NamesReadIn(_, _)
NamesReadIn(nodes, i) ==
    IF i > Len(nodes) THEN {}
    ELSE NamesRead(nodes[i]) \cup NamesReadIn(nodes, i + 1)
NamesRead(node) ==
    CASE node.type = "AST_IDENTIFIER_EXPR" -> {node.name}
      [] node.type = "AST_BINARY_EXPR" -> NamesRead(node.left) \cup NamesRead(node.right)
      [] node.type = "AST_UNARY_EXPR" -> NamesRead(node.operand)
      [] node.type = "AST_CALL_EXPR" -> NamesReadIn(node.arguments, 1)
      [] node.type = "AST_VAR_DECLARATION" -> NamesRead(node.initializer)
      [] node.type = "AST_RETURN_STMT" -> NamesRead(node.value)
      [] node.type = "AST_EXPRESSION_STMT" -> NamesRead(node.expression)
      [] node.type = "AST_BLOCK_STMT" -> NamesReadIn(node.statements, 1)
      [] OTHER -> {}
RECURSIVE NamesDeclared(_)
RECURSIVE NamesDeclaredIn(_, _)
NamesDeclaredIn(nodes, i) ==
    IF i > Len(nodes) THEN {}
    ELSE NamesDeclared(nodes[i]) \cup NamesDeclaredIn(nodes, i + 1)
NamesDeclared(node) ==
    CASE node.type = "AST_VAR_DECLARATION" -> {node.name}
      [] node.type = "AST_BLOCK_STMT" -> NamesDeclaredIn(node.statements, 1)
      [] OTHER -> {}

\* The functions that read a name they do not declare.
ReadsForeignName ==
    {i \in 1..TheProgram.declaration_count :
        /\ TheProgram.declarations[i].type = "AST_FUNCTION_DECLARATION"
        /\ NamesRead(TheProgram.declarations[i].body)
             \ NamesDeclared(TheProgram.declarations[i].body) # {}}

\* C14: a function that reads a name only another function declares does
\* not lower: the first compilation on a context fails.
C14_ScopeIsPerFunction ==
    (/\ IsProgram
     /\ calls = 1
     /\ last.op = "generate"
     /\ ~call.active
     /\ ReadsForeignName # {})
    => /\ ~last.ok
       /\ cg.had_error

\* C15: native_codegen_generate returns true only for a program with
\* exactly one function named main.
C15_ExactlyOneMain ==
    (IsProgram /\ ~call.active /\ last = [op |-> "generate", ok |-> TRUE])
        => OneMain

\* C16: the file a successful generate_elf_executable leaves has execute
\* permission.
C16_OutputIsExecutable ==
    last = [op |-> "elf", ok |-> TRUE] => fs.exists /\ fs.executable

\* C17: a call of generate_elf_executable that opens the file closes it
\* once, whatever the writes did, and returns true; one that cannot open it
\* leaves the file alone and returns false with its message.
C17_ClosedOnce ==
    [][Returns("elf") =>
          IF fs'.opened = fs.opened
          THEN /\ fs' = fs
               /\ ~last'.ok
               /\ cg'.error_message = "Could not create output file"
          ELSE /\ fs'.opened = fs.opened + 1
               /\ fs'.closed = fs.closed + 1
               /\ fs'.opened = fs'.closed
               /\ last'.ok]_vars

\* The file was opened, a write failed, and the descriptor is closed.
C17_Witness ==
    /\ last.op = "elf"
    /\ fs.opened = 1
    /\ fs.closed = 1
    /\ Len(fs.content) < 3

\* The bytes and the length the reference gives for an instruction form.
\* An immediate of less than 24 bits is three bytes and five of sign.
ReferenceImmediate(imm) ==
    <<imm % 256, (imm \div 256) % 256, (imm \div 65536) % 256>>
    \o [k \in 1..5 |-> IF imm < 0 THEN 255 ELSE 0]
ReferenceBytes(inst) ==
    LET ops == inst.operands
        r3(k) == ops[k].reg % 8
        rm == 192 + 8 * r3(2) + r3(1)
    IN  CASE inst.opcode = "INST_MOV" /\ ops[2].type = "OPERAND_IMMEDIATE" ->
                <<72, 184 + r3(1)>> \o ReferenceImmediate(ops[2].immediate)
          [] inst.opcode = "INST_MOV" /\ ops[2].type = "OPERAND_REGISTER" -> <<72, 137, rm>>
          [] inst.opcode = "INST_ADD" -> <<72, 1, rm>>
          [] inst.opcode = "INST_SUB" -> <<72, 41, rm>>
          [] inst.opcode = "INST_PUSH" -> <<80 + r3(1)>>
          [] inst.opcode = "INST_POP" -> <<88 + r3(1)>>
          [] inst.opcode = "INST_SYSCALL" -> <<15, 5>>
          [] inst.opcode = "INST_RET" -> <<195>>
ReferenceLength(inst) ==
    IF inst.label # NoLabel THEN 0
    ELSE CASE inst.opcode = "INST_MOV" ->
                  IF inst.operands[2].type = "OPERAND_IMMEDIATE" THEN 10 ELSE 3
           [] inst.opcode \in {"INST_ADD", "INST_SUB"} -> 3
           [] inst.opcode \in {"INST_PUSH", "INST_POP", "INST_RET"} -> 1
           [] inst.opcode = "INST_SYSCALL" -> 2
           [] inst.opcode = "INST_CALL" -> 5
RECURSIVE ReferenceOffset(_, _)
ReferenceOffset(insts, i) ==
    IF i <= 1 THEN 0
    ELSE ReferenceOffset(insts, i - 1) + ReferenceLength(insts[i - 1])

\* C18: the encoder writes, for each instruction of a supported form, the
\* reference bytes at the sum of the lengths before it (five bytes for a
\* call, none for a label), and code_size is the sum of the lengths.
C18_ReferenceEncoding ==
    (driver = "enc" /\ last.op = "encode") =>
        /\ code_size(cg) = ReferenceOffset(cg.instructions, Len(cg.instructions) + 1)
        /\ \A i \in 1..Len(cg.instructions) :
              LET inst == cg.instructions[i]
                  o == ReferenceOffset(cg.instructions, i)
                  n == ReferenceLength(inst)
              IN  /\ o + n <= code_size(cg)
                  /\ (inst.label = NoLabel /\ inst.opcode # "INST_CALL")
                        => SubSeq(cg.code_buffer, o + 1, o + n) = ReferenceBytes(inst)

\* mov r8, -2 then add rdi, r8 were encoded: 48 B8 FE FF .., 48 01 C7.
C18_Witness ==
    /\ driver = "enc"
    /\ last.op = "encode"
    /\ code_size(cg) = 13
    /\ SubSeq(cg.code_buffer, 1, 4) = <<72, 184, 254, 255>>
    /\ SubSeq(cg.code_buffer, 11, 13) = <<72, 1, 199>>

\* The context has served one compilation at most: main.c's pipeline, or a
\* client's first call.
FirstCompilation == driver = "main" \/ calls <= 1

\* C19: during a compilation no two instructions carry the same label, and
\* the labels of the string literals are distinct from one another and from
\* the instructions' labels.
C19_LabelsAreUnique ==
    FirstCompilation =>
        /\ \A i \in 1..Len(cg.instructions), j \in 1..Len(cg.instructions) :
              (i # j /\ cg.instructions[i].label # NoLabel)
                  => cg.instructions[i].label # cg.instructions[j].label
        /\ \A i \in 1..Len(cg.string_literals), j \in 1..Len(cg.string_literals) :
              i # j => cg.string_literals[i].label # cg.string_literals[j].label
        /\ \A i \in 1..Len(cg.string_literals), j \in 1..Len(cg.instructions) :
              cg.string_literals[i].label # cg.instructions[j].label

\* The program with functions named func_1, _start and main was compiled:
\* four labels in the sequence.
C19_Witness ==
    /\ FirstCompilation
    /\ IsProgram
    /\ FunctionsNamed("_start") # {}
    /\ FunctionsNamed("func_1") # {}
    /\ ~call.active
    /\ last = [op |-> "generate", ok |-> TRUE]
    /\ Cardinality({i \in 1..Len(cg.instructions) :
                       cg.instructions[i].label # NoLabel}) = 4

\* C20: after a successful native_codegen_generate the label _start occurs
\* once, after every function's label and body: what follows it is the call
\* of main and the exit, whose syscall is the only one of the sequence.
C20_StartOnceAtEnd ==
    (FirstCompilation /\ ~call.active /\ last = [op |-> "generate", ok |-> TRUE]) =>
        LET insts == cg.instructions
            starts == {i \in 1..Len(insts) : insts[i].label = "_start"}
        IN  /\ Cardinality(starts) = 1
            /\ \A s \in starts :
                  /\ Len(insts) = s + 5
                  /\ insts[s + 1].opcode = "INST_CALL"
                  /\ \A k \in 1..Len(cg.functions) :
                        LabelIndex(insts, cg.functions[k].label) \in 1..(s - 1)
                  /\ \A i \in 1..Len(insts) :
                        insts[i].opcode = "INST_RET" => i < s
            /\ {i \in 1..Len(insts) : insts[i].opcode = "INST_SYSCALL"} = {Len(insts)}

\* A program whose main prints was compiled.
C20_Witness ==
    /\ FirstCompilation
    /\ ~call.active
    /\ last = [op |-> "generate", ok |-> TRUE]
    /\ cg.stdout # << >>
    /\ Len(cg.functions) = 1

\* C21: the label of every function symbol differs from the function's
\* source name.
C21_LabelDiffersFromName ==
    \A k \in 1..Len(cg.functions) :
        cg.functions[k].label # cg.functions[k].name

\* The body of the function lowered last is declarations followed by the
\* return of a name one of them declares.
LastBody == TheProgram.declarations[call.lowered].body
ReturnsDeclaredName ==
    /\ LastLoweredFunction
    /\ call.active
    /\ LastBody.statement_count >= 2
    /\ \A j \in 1..(LastBody.statement_count - 1) :
          LastBody.statements[j].type = "AST_VAR_DECLARATION"
    /\ LastBody.statements[LastBody.statement_count].type = "AST_RETURN_STMT"
    /\ LastBody.statements[LastBody.statement_count].value.type = "AST_IDENTIFIER_EXPR"
    /\ \E j \in 1..(LastBody.statement_count - 1) :
          LastBody.statements[j].name
              = LastBody.statements[LastBody.statement_count].value.name
\* The position, among the declarations of the body, of the newest one of
\* the returned name.
NewestDeclaration ==
    LET n == LastBody.statements[LastBody.statement_count].value.name
        S == {j \in 1..(LastBody.statement_count - 1) : LastBody.statements[j].name = n}
    IN  CHOOSE j \in S : \A k \in S : k <= j
\* The loads from memory in the instruction sequence.
MemoryLoads ==
    {i \in 1..Len(cg.instructions) :
        /\ cg.instructions[i].opcode = "INST_MOV"
        /\ cg.instructions[i].operand_count = 2
        /\ cg.instructions[i].operands[1].type = "OPERAND_REGISTER"
        /\ cg.instructions[i].operands[2].type = "OPERAND_MEMORY"}
\* The names some function reads and no function of the program declares.
RECURSIVE NamesDeclaredFrom(_)
NamesDeclaredFrom(i) ==
    IF i > TheProgram.declaration_count THEN {}
    ELSE (IF TheProgram.declarations[i].type = "AST_FUNCTION_DECLARATION"
          THEN NamesDeclared(TheProgram.declarations[i].body) ELSE {})
         \cup NamesDeclaredFrom(i + 1)
ReadsUndeclaredName ==
    \E i \in 1..TheProgram.declaration_count :
        /\ TheProgram.declarations[i].type = "AST_FUNCTION_DECLARATION"
        /\ NamesRead(TheProgram.declarations[i].body) \ NamesDeclaredFrom(1) # {}

\* C22: the read of a name declared several times in the function loads
\* from the slot of the newest declaration; a name never declared is not
\* found, and the compilation fails.
C22_NewestBindingWins ==
    /\ ReturnsDeclaredName =>
          /\ MemoryLoads # {}
          /\ LET i == CHOOSE k \in MemoryLoads : \A j \in MemoryLoads : j <= k
             IN  /\ cg.instructions[i].operands[2].base = REG_RBP
                 /\ cg.instructions[i].operands[2].offset = -(8 * NewestDeclaration)
    /\ (IsProgram /\ ~call.active /\ last.op = "generate" /\ ReadsUndeclaredName) =>
          /\ ~last.ok
          /\ calls = 1 => cg.error_message = "Undefined variable"

\* x was declared twice and the return loads the second slot.
C22_Witness ==
    /\ ReturnsDeclaredName
    /\ NewestDeclaration = 2
    /\ LastBody.statements[1].name = LastBody.statements[2].name
    /\ \E i \in MemoryLoads : cg.instructions[i].operands[2].offset = -16

\* C23: the step of native_codegen_generate in which a lowering error is
\* reported ends the call with false; no instruction follows the error, the
\* function being lowered is the last one entered, and _start is not
\* emitted.
C23_FirstErrorHalts ==
    [][(call.active /\ Len(cg'.stderr) > Len(cg.stderr)) =>
          /\ ~call'.active
          /\ last' = [op |-> "generate", ok |-> FALSE]
          /\ Len(cg'.stderr) = Len(cg.stderr) + 1
          /\ Len(cg'.instructions) = cg'.error_at
          /\ Len(cg'.functions) <= Len(cg.functions) + 1
          /\ \A i \in 1..Len(cg'.instructions) :
                cg'.instructions[i].label = "_start" => i <= Len(cg.instructions)]_vars

\* The statement after a declaration did not lower: the declaration after
\* it was not lowered, and the sequence is as the error found it.
C23_Witness ==
    /\ last = [op |-> "generate", ok |-> FALSE]
    /\ calls = 1
    /\ cg.error_message = "Unsupported statement type"
    /\ Len(cg.variables) = 1
    /\ Len(cg.instructions) = 5
    /\ cg.error_at = 5

\* C24: when the allocation of an instruction fails during lowering,
\* native_codegen_generate returns false and nothing is appended after the
\* error.
C24_OutOfMemoryAborts ==
    (/\ last.op = "generate"
     /\ ~call.active
     /\ cg.had_error
     /\ \E i \in 1..Len(cg.stderr) : cg.stderr[i] = "Out of memory")
    => /\ ~last.ok
       /\ Len(cg.instructions) = cg.error_at

\* The statements of main that print a variable.
IsVariablePrint(stmt) ==
    /\ stmt.type = "AST_EXPRESSION_STMT"
    /\ stmt.expression.type = "AST_CALL_EXPR"
    /\ stmt.expression.callee.type = "AST_IDENTIFIER_EXPR"
    /\ stmt.expression.callee.name = "print"
    /\ stmt.expression.argument_count = 1
    /\ stmt.expression.arguments[1].type = "AST_IDENTIFIER_EXPR"
PrintedVariables ==
    {i \in 1..MainBody.statement_count : IsVariablePrint(MainBody.statements[i])}
\* What print(x) at statement i is to write: the literal the newest
\* declaration of x before it was initialised from, nothing if that is not
\* a string literal.
LiteralOf(i) ==
    LET n == MainBody.statements[i].expression.arguments[1].name
        S == {j \in 1..(i - 1) :
                 /\ MainBody.statements[j].type = "AST_VAR_DECLARATION"
                 /\ MainBody.statements[j].name = n}
        init == MainBody.statements[CHOOSE j \in S : \A k \in S : k <= j].initializer
    IN  IF S # {} /\ init.type = "AST_LITERAL_EXPR" /\ init.literal_type = "LITERAL_STRING"
        THEN <<init.value>> ELSE << >>

\* C25: print(x) of a variable x writes the content of the string literal
\* x was initialised from.
C25_PrintsTheVariablesLiteral ==
    (/\ OneMain
     /\ Cardinality(PrintedVariables) = 1
     /\ PrintedLiterals = {}
     /\ calls = 1
     /\ ~call.active
     /\ last = [op |-> "generate", ok |-> TRUE])
    => \A i \in PrintedVariables : cg.stdout = LiteralOf(i)

ReturnsSumWithLocal ==
    /\ OneMain
    /\ TheProgram.declaration_count = 1
    /\ MainBody.statement_count = 2
    /\ MainBody.statements[1].type = "AST_VAR_DECLARATION"
    /\ MainBody.statements[1].initializer.type = "AST_LITERAL_EXPR"
    /\ MainBody.statements[1].initializer.literal_type = "LITERAL_NUMBER"
    /\ MainBody.statements[2].type = "AST_RETURN_STMT"
    /\ MainBody.statements[2].value.type = "AST_BINARY_EXPR"
    /\ MainBody.statements[2].value.operator = "BINARY_ADD"
    /\ MainBody.statements[2].value.left.type = "AST_LITERAL_EXPR"
    /\ MainBody.statements[2].value.right.type = "AST_IDENTIFIER_EXPR"
    /\ MainBody.statements[2].value.right.name = MainBody.statements[1].name

\* C27: the slot of a local holds the value of its initializer while the
\* function runs, whatever temporaries are pushed: x = 5; return 1 + x
\* comes to its ret with 6 in RAX.
C27_LocalsSurviveTemporaries ==
    (/\ ReturnsSumWithLocal
     /\ m.status = "running"
     /\ m.ip \in 1..Len(cg.instructions)
     /\ cg.instructions[m.ip].opcode = "INST_RET")
    => m.regs[REG_RAX]
         = MainBody.statements[2].value.left.value
           + MainBody.statements[1].initializer.value

\* Pushes less pops among the first i instructions.
RECURSIVE StackDepth(_, _)
StackDepth(insts, i) ==
    IF i = 0 THEN 0
    ELSE StackDepth(insts, i - 1)
         + (CASE insts[i].opcode = "INST_PUSH" -> 1
              [] insts[i].opcode = "INST_POP" -> -1
              [] OTHER -> 0)

\* C28: the instructions of an expression lowered successfully push as
\* often as they pop, no prefix pops more than it pushed, and their run
\* leaves the stack pointer where it was.
C28_PushesMatchPops ==
    (driver = "expr" /\ last = [op |-> "expression", ok |-> TRUE]) =>
        /\ StackDepth(cg.instructions, Len(cg.instructions)) = 0
        /\ \A i \in 0..Len(cg.instructions) : StackDepth(cg.instructions, i) >= 0
        /\ m.status = "running" =>
              m.regs[REG_RSP] = -(8 * StackDepth(cg.instructions, m.ip - 1))
        /\ m.status = "fell_off" => m.regs[REG_RSP] = 0

\* An expression four levels deep has run: three temporaries were on the
\* stack at once, and the stack pointer is back.
C28_Witness ==
    /\ driver = "expr"
    /\ m.status = "fell_off"
    /\ m.regs[REG_RSP] = 0
    /\ \E i \in 1..Len(cg.instructions) : StackDepth(cg.instructions, i) = 3

\* The bytes the encoder wrote for instruction i of the sequence.
EncodedBytes(i) ==
    SubSeq(cg.code_buffer,
           OffsetOf(cg.instructions, i) + 1,
           OffsetOf(cg.instructions, i + 1))

\* C29: two MOV instructions with different operands are encoded as
\* different bytes.
C29_MovBytesTellOperands ==
    EncodedOnce =>
        \A i \in 1..Len(cg.instructions), j \in 1..Len(cg.instructions) :
            (/\ cg.instructions[i].opcode = "INST_MOV"
             /\ cg.instructions[j].opcode = "INST_MOV"
             /\ cg.instructions[i].operands # cg.instructions[j].operands)
            => EncodedBytes(i) # EncodedBytes(j)

\* C30: while the encoder runs, code_size never exceeds code_capacity;
\* before an instruction is written one doubling at most leaves 20 bytes
\* free, and no instruction is longer than 10 bytes.
C30_SizeWithinCapacity ==
    driver = "cap" =>
        /\ code_size(cg) <= cg.code_capacity
        /\ (pc = "encoding" /\ call.i <= Len(cg.instructions)) =>
              LET inst == cg.instructions[call.i]
                  cap1 == IF code_size(cg) + 20 > cg.code_capacity
                          THEN 2 * cg.code_capacity ELSE cg.code_capacity
              IN  ~IsLabelMarker(inst) =>
                      /\ code_size(cg) + 20 <= cap1
                      /\ Len(EncodeInstruction(inst)) <= 10

\* The code has outgrown the first buffer in the middle of a run.
C30_Witness ==
    /\ driver = "cap"
    /\ pc = "encoding"
    /\ code_size(cg) > 4096
    /\ cg.code_capacity = 8192

=============================================================================
